---- MODULE Spec2Model ----
(***************************************************************************)
(* The scheduling-and-generation workflow of the BadBeats backend:         *)
(* Celery beat, the scheduler tasks of app/workers/tasks.py, the           *)
(* generate_prediction task with its two retry layers (tenacity inside     *)
(* predict, Celery around the task), the predictions table, the ingestion  *)
(* task and the confidence calibration of the two prediction models.       *)
(*                                                                         *)
(* Time is in seconds.  The clock moves in steps of Tick; beat fires the   *)
(* crontab entries of celery_app.py when the clock reaches them.  Workers  *)
(* take messages whose ETA has passed, in any order and with any delay.    *)
(***************************************************************************)
EXTENDS Bags, FiniteSets, Integers, Sequences, TLC

VARIABLES
    now,          \* wall clock, seconds since midnight UTC
    beatDone,     \* beat has sent the crontab entries of the current instant
    date,         \* game id -> start time of the game, or NoDate
    schedQ,       \* bag of scheduler-task messages on the broker
    genQ,         \* bag of generate_prediction messages on the broker
    running,      \* bag of generate_prediction executions in progress
    results,      \* bag of final task states in the result backend
    predictions,  \* bag of rows of the 'predictions' table
    faults,       \* number of collaborator failures injected so far
    fetch,        \* collaborator outcomes of the aggregation under study
    order,        \* game ids in the order get_upcoming_games returns them
    sent,         \* apply_async calls of the latest scheduler run, in call order
    summary,      \* return value of the latest scheduler or ingestion run
    gamesTable,   \* ids of the rows of the 'games' table
    conf,         \* confidences of the calibration under study
    llm,          \* what the engine answers: pick, logic and raw confidence
    news,         \* news_ingestion: seen_urls, article_cache and the fetches
    arg,          \* arguments of the function call under study
    ret           \* what the function call under study returned

vars == <<now, beatDone, date, schedQ, genQ, running, results, predictions,
          faults, fetch, order, sent, summary, gamesTable, conf, llm, news,
          arg, ret>>

\* What the beat, the workers and generate_prediction never touch
aux == <<order, sent, summary, gamesTable, conf, llm, news, arg, ret>>

\* What the scheduler and ingestion tasks never touch either
study == <<llm, news, arg, ret>>

-----------------------------------------------------------------------------
(* Bounds of the model *)

NumGames == 1
MaxTicks == 5
NumWorkers == 2
MaxFaults == 4
MaxGen == 4

-----------------------------------------------------------------------------
(* Time *)

T(h, m, s) == h * 3600 + m * 60 + s

Tick == T(0, 15, 0)

MaxTime == MaxTicks * Tick

HourOf(t) == (t \div 3600) % 24

MinuteOf(t) == (t \div 60) % 60

-----------------------------------------------------------------------------
(* Games returned by the game-data collaborator *)

Games == 1 .. NumGames

NoDate == -1

\* A 'date' value datetime.fromisoformat rejects
BadDate == -2

IsTime(d) == d \notin {NoDate, BadDate}

\* Start times the catalogue draws from: 1h, 1h30, 3h10 (2h55m after the
\* 00:15 sweep) and 4h15 (4h after it) past midnight; a game may also come
\* without a 'date' key.
StartTimes == {T(1, 0, 0), T(1, 30, 0), T(3, 10, 0), T(4, 15, 0)}

AgentId == "langchain-llm-v1"

-----------------------------------------------------------------------------
(* Celery retry policy *)

\* Task.max_retries: the decorators give max_retries only inside retry_kwargs,
\* the explicit self.retry(exc=e) of every handler runs under this value too.
max_retries == 3

\* Task.default_retry_delay (3 * 60): self.retry(exc=e) is called without a
\* countdown, so the delay of retry_kwargs is never the one applied.
default_retry_delay == 3 * 60

\* retry_kwargs={"max_retries": 3, "countdown": 300} of generate_prediction:
\* the countdown of the automatic retry, which the explicit self.retry in the
\* task body never lets happen
retry_kwargs_countdown == 300

\* generate_prediction.apply_async(countdown=5)
EmergencyCountdown == 5

-----------------------------------------------------------------------------
(* Messages *)

SchedMsg(task, eta, retries, link) ==
    [task |-> task, eta |-> eta, retries |-> retries, link |-> link]

\* A generate_prediction message.  origin (the call site that dispatched it)
\* and calls (engine invocations made so far for this dispatch) are history
\* carried along for the properties; the task never reads them.
GenMsg(game, eta, retries, origin, calls) ==
    [game |-> game, eta |-> eta, retries |-> retries, origin |-> origin,
     calls |-> calls]

\* Number of generate_prediction tasks dispatched and not yet forgotten
GenCount == BagCardinality(genQ) + BagCardinality(running) + BagCardinality(results)

\* self.retry(exc=e) of a scheduler task: the message returns to the broker
\* with retries + 1, or the exception is raised once max_retries is passed.
RetrySched(m) ==
    IF m.retries + 1 > max_retries
    THEN EmptyBag
    ELSE SetToBag({SchedMsg(m.task, now + default_retry_delay, m.retries + 1, m.link)})

-----------------------------------------------------------------------------
(* Beat: celery_app.conf.beat_schedule *)

\* A prediction time two hours before the game
calculate_prediction_time_two_hours_before(game_time) == game_time - T(2, 0, 0)

calculate_prediction_time(game_time) == game_time - T(1, 0, 0)

BeatEntries(t) ==
    {e \in {"schedule", "check_new", "rescue"} :
        \/ e = "schedule"  /\ HourOf(t) % 2 = 0 /\ MinuteOf(t) = 0
        \/ e = "check_new" /\ HourOf(t) % 12 = 0 /\ MinuteOf(t) = 30
        \/ e = "rescue"    /\ MinuteOf(t) = 15}

Beat ==
    /\ ~beatDone
    /\ beatDone' = TRUE
    /\ schedQ' = schedQ (+) SetToBag({SchedMsg(e, now, 0, 0) : e \in BeatEntries(now)})
    /\ UNCHANGED <<now, date, genQ, running, results, predictions, faults, fetch>>

Advance ==
    /\ beatDone
    /\ now + Tick <= MaxTime
    /\ now' = now + Tick
    /\ beatDone' = FALSE
    /\ UNCHANGED <<date, schedQ, genQ, running, results, predictions, faults, fetch>>

-----------------------------------------------------------------------------
(* Scheduler tasks *)

\* chain(schedule_game_predictions.s(), generate_prediction.s(game_id)): the
\* link is applied with the parent's result prepended to its arguments, that
\* is generate_prediction(result, game_id); the task takes one argument, the
\* call is rejected with a TypeError and no generate_prediction body runs.
ApplyLink(link) == EmptyBag

\* A loop without the 'if prediction_time > current_time' test
ScheduledGames_without_future_check(t) ==
    {g \in DOMAIN date : IsTime(date[g])}

\* A loop without the inner try/except: a game without a usable date ends
\* the whole run
ScheduledGames_halting_on_bad_date(t) ==
    IF \E g \in DOMAIN date : ~IsTime(date[g])
    THEN {}
    ELSE {g \in DOMAIN date : calculate_prediction_time(date[g]) > t}

\* The games schedule_game_predictions dispatches at time t: those with a
\* date whose prediction time lies in the future.
ScheduledGames(t) ==
    {g \in DOMAIN date : IsTime(date[g]) /\ calculate_prediction_time(date[g]) > t}

schedule_game_predictions(m, ok) ==
    /\ m.task = "schedule"
    /\ m.eta <= now
    /\ IF ok
       THEN /\ GenCount + Cardinality(ScheduledGames(now)) <= MaxGen
            /\ genQ' = genQ (+) SetToBag({GenMsg(g, calculate_prediction_time(date[g]), 0, "schedule", 0) :
                                             g \in ScheduledGames(now)})
                            (+) ApplyLink(m.link)
            /\ schedQ' = schedQ (-) SetToBag({m})
            /\ UNCHANGED faults
       ELSE /\ faults < MaxFaults
            /\ faults' = faults + 1
            /\ schedQ' = (schedQ (-) SetToBag({m})) (+) RetrySched(m)
            /\ UNCHANGED genQ
    /\ UNCHANGED <<now, beatDone, date, running, results, predictions, fetch>>

check_new_games(m, ok) ==
    /\ m.task = "check_new"
    /\ m.eta <= now
    /\ IF ok
       THEN /\ schedQ' = (schedQ (-) SetToBag({m}))
                            (+) SetToBag({SchedMsg("schedule", now, 0, g) : g \in DOMAIN date})
            /\ UNCHANGED faults
       ELSE /\ faults < MaxFaults
            /\ faults' = faults + 1
            /\ schedQ' = (schedQ (-) SetToBag({m})) (+) RetrySched(m)
    /\ UNCHANGED <<now, beatDone, date, genQ, running, results, predictions, fetch>>

\* The games reschedule_missed_predictions treats as imminent at time t
ImminentGames(t) ==
    {g \in DOMAIN date : IsTime(date[g]) /\ t < date[g] /\ date[g] < t + T(3, 0, 0)}

reschedule_missed_predictions(m, ok) ==
    /\ m.task = "rescue"
    /\ m.eta <= now
    /\ IF ok
       THEN /\ GenCount + Cardinality(ImminentGames(now)) <= MaxGen
            /\ genQ' = genQ (+) SetToBag({GenMsg(g, now + EmergencyCountdown, 0, "rescue", 0) :
                                             g \in ImminentGames(now)})
            /\ schedQ' = schedQ (-) SetToBag({m})
            /\ UNCHANGED faults
       ELSE /\ faults < MaxFaults
            /\ faults' = faults + 1
            /\ schedQ' = (schedQ (-) SetToBag({m})) (+) RetrySched(m)
            /\ UNCHANGED genQ
    /\ UNCHANGED <<now, beatDone, date, running, results, predictions, fetch>>

-----------------------------------------------------------------------------
(* Data aggregation: _prepare_game_data *)

\* Python's None, as a value comparable with the returned dictionaries
None == [none |-> TRUE]

\* Outcomes of the collaborator calls of one aggregation.  get_game_by_id
\* returns a game, returns nothing or raises; get_team_stats_averages returns a
\* mapping, returns its FilteredResponse wrapper (which has no .get) or raises;
\* the news and injury fetches find items ("ok"), find nothing for the team
\* ("none") or have their sources fail ("fail"), and catch every exception
\* themselves.
FetchOutcomes ==
    [game : {"ok", "missing", "raise"},
     home_stats : {"ok", "filtered", "raise"},
     away_stats : {"ok", "filtered", "raise"},
     home_news : {"ok", "none", "fail"},
     away_news : {"ok", "none", "fail"},
     home_injuries : {"ok", "none", "fail"},
     away_injuries : {"ok", "none", "fail"}]

AllOk ==
    [game |-> "ok", home_stats |-> "ok", away_stats |-> "ok",
     home_news |-> "ok", away_news |-> "ok",
     home_injuries |-> "ok", away_injuries |-> "ok"]

\* The fetches served by get_recent_news_for_team and get_team_injury_report
NewsFetches == {"home_news", "away_news", "home_injuries", "away_injuries"}

SubFetches ==
    {"home_stats", "away_stats", "home_news", "away_news",
     "home_injuries", "away_injuries"}

\* The sub-fetches that failed: a stats fetch that raised, a news or injury
\* fetch whose sources failed
FailedFetches(o) == {f \in SubFetches : o[f] \in {"raise", "fail"}}

\* get_recent_news_for_team / get_team_injury_report: the list, or [] on any
\* failure of the sources
ListOrEmpty(outcome) == IF outcome = "ok" THEN "list" ELSE "empty"

\* A _prepare_game_data without the 'if not game_info' return and whose
\* lookup errors do not reach the except clause
prepare_game_data_without_lookup_check(o) ==
    IF o.home_stats # "ok" \/ o.away_stats # "ok" THEN None
    ELSE [structured_data |->
              [home_team_stats |-> "data", away_team_stats |-> "data"],
          unstructured_data |->
              [home_team_news |-> ListOrEmpty(o.home_news),
               away_team_news |-> ListOrEmpty(o.away_news),
               home_team_injuries |-> ListOrEmpty(o.home_injuries),
               away_team_injuries |-> ListOrEmpty(o.away_injuries)]]

\* A _prepare_game_data to which a failure of the news sources propagates
prepare_game_data_failing_on_news(o) ==
    IF o.game # "ok" THEN None
    ELSE IF o.home_stats # "ok" \/ o.away_stats # "ok" THEN None
    ELSE IF \E f \in NewsFetches : o[f] = "fail" THEN None
    ELSE [structured_data |->
              [home_team_stats |-> "data", away_team_stats |-> "data"],
          unstructured_data |->
              [home_team_news |-> ListOrEmpty(o.home_news),
               away_team_news |-> ListOrEmpty(o.away_news),
               home_team_injuries |-> ListOrEmpty(o.home_injuries),
               away_team_injuries |-> ListOrEmpty(o.away_injuries)]]

\* asyncio.gather without return_exceptions: one raising sub-fetch raises out
\* of the gather; home_team_stats.get('data', []) raises on a FilteredResponse;
\* every exception ends in the except clause, which returns None.
prepare_game_data(o) ==
    IF o.game # "ok" THEN None
    ELSE IF o.home_stats # "ok" \/ o.away_stats # "ok" THEN None
    ELSE [structured_data |->
              [home_team_stats |-> "data", away_team_stats |-> "data"],
          unstructured_data |->
              [home_team_news |-> ListOrEmpty(o.home_news),
               away_team_news |-> ListOrEmpty(o.away_news),
               home_team_injuries |-> ListOrEmpty(o.home_injuries),
               away_team_injuries |-> ListOrEmpty(o.away_injuries)]]

\* Everything _prepare_game_data can return
PrepareResults == {prepare_game_data(o) : o \in FetchOutcomes}

-----------------------------------------------------------------------------
(* generate_prediction *)

\* @retry(stop=stop_after_attempt(3), ...) on predict
stop_after_attempt == 3

Max(a, b) == IF a >= b THEN a ELSE b

Min(a, b) == IF a <= b THEN a ELSE b

\* wait_exponential(multiplier=1, min=2, max=10): the sleep after the failed
\* attempt number n is multiplier * 2^(n-1), clamped to [min, max].
wait_exponential(attempt_number) ==
    Max(Max(0, 2), Min(1 * 2 ^ (attempt_number - 1), 10))

\* Confidences are fixed-point numbers in thousandths (0.7 is 700)
Unit == 1000

RawMargin == 8

\* Raw confidences from -0.05 * RawMargin to 1 + 0.05 * RawMargin
RawConfidences == {50 * k : k \in (0 - RawMargin) .. (20 + RawMargin)}

\* A calibration that regresses toward 0.5 instead of 0.7
calibrate_confidence_toward_half(raw_confidence) ==
    LET mean == 500
        regression_strength == 300
        calibrated == ((Unit - regression_strength) * raw_confidence
                           + regression_strength * mean) \div Unit
    IN  Max(0, Min(Unit, calibrated))

\* LangChainPredictionModel._calibrate_confidence
calibrate_confidence(raw_confidence) ==
    LET mean == 700
        regression_strength == 300
        calibrated == ((Unit - regression_strength) * raw_confidence
                           + regression_strength * mean) \div Unit
    IN  Max(0, Min(Unit, calibrated))

\* SimplePredictionModel._calibrate_confidence
SimplePredictionModel_calibrate_confidence(raw_confidence) ==
    LET mean == 700
        regression_strength == 300
        calibrated == ((Unit - regression_strength) * raw_confidence
                           + regression_strength * mean) \div Unit
    IN  Max(0, Min(Unit, calibrated))

\* A 'confidence' value of the answer that float() rejects
NotAFloat == -1000000

\* An extraction that stores the raw confidence as the engine gave it
extract_confidence_uncalibrated(raw) ==
    IF raw = NotAFloat THEN 500 ELSE raw

\* _extract_prediction_from_llm_response: confidence_raw is clamped to
\* [0, 1], 0.5 stands in for a value that is no number, and the result is
\* calibrated
extract_confidence(raw) ==
    LET confidence == IF raw = NotAFloat THEN 500 ELSE Max(0, Min(Unit, raw))
    IN  calibrate_confidence(confidence)

\* Answers of the engine that parse: the pick may be missing (""), the
\* confidence may be any number or no number
LlmOutputs ==
    [pick : {"Lakers -4", ""}, logic : {"logic"},
     confidence : RawConfidences \cup {NotAFloat}]

\* What the engine answers when nothing else is under study
DefaultLlm == [pick |-> "Lakers -4", logic |-> "logic", confidence |-> 800]

Exec(game, retries, origin, calls, pc, attempt, waits, existed) ==
    [game |-> game, retries |-> retries, origin |-> origin, calls |-> calls,
     pc |-> pc, attempt |-> attempt, waits |-> waits, existed |-> existed]

Result(r, status) ==
    [game |-> r.game, origin |-> r.origin, retries |-> r.retries,
     calls |-> r.calls, status |-> status]

\* Number of loop.close() calls an execution has made when it stands at pc:
\* the loop of asyncio.new_event_loop() is closed by the one statement that
\* follows the return of predict, before the prediction is saved
loop_close_calls(pc) == IF pc = "persist" THEN 1 ELSE 0

\* record_data of create_prediction (without the fresh uuid), built from the
\* PredictionResult of predict
PredictionRow(game) ==
    [agent_id |-> AgentId, game_id |-> game, pick |-> llm.pick,
     logic |-> llm.logic, confidence |-> extract_confidence(llm.confidence),
     result |-> "pending"]

\* Rows of the predictions table for (AgentId, game)
RowsFor(game) == CopiesIn(PredictionRow(game), predictions)

\* A worker takes a generate_prediction message whose ETA has passed and
\* enters the task body.  existed records whether a row for the game was in
\* the table at that moment; the body itself never reads the table.
StartGenerate(m) ==
    /\ m.eta <= now
    /\ BagCardinality(running) < NumWorkers
    /\ genQ' = genQ (-) SetToBag({m})
    /\ running' = running (+) SetToBag({Exec(m.game, m.retries, m.origin, m.calls,
                                             "prepare", 0, <<>>, RowsFor(m.game) > 0)})
    /\ UNCHANGED <<now, beatDone, date, schedQ, results, predictions, faults, fetch>>

\* except Exception as e: raise self.retry(exc=e)
RetryGenerate(old, r) ==
    /\ running' = running (-) SetToBag({old})
    /\ IF r.retries + 1 > max_retries
       THEN /\ results' = results (+) SetToBag({Result(r, "failure")})
            /\ UNCHANGED genQ
       ELSE /\ genQ' = genQ (+) SetToBag({GenMsg(r.game, now + default_retry_delay,
                                                  r.retries + 1, r.origin, r.calls)})
            /\ UNCHANGED results

\* game_data = loop.run_until_complete(_prepare_game_data(game_id)); a None
\* ends the task with the ordinary return value {"status": "error"}.
PrepareGameData(r, game_data) ==
    /\ r.pc = "prepare"
    /\ IF game_data = None
       THEN /\ faults < MaxFaults
            /\ faults' = faults + 1
            /\ running' = running (-) SetToBag({r})
            /\ results' = results (+) SetToBag({Result(r, "error")})
       ELSE /\ running' = (running (-) SetToBag({r}))
                              (+) SetToBag({[r EXCEPT !.pc = "predict", !.attempt = 1]})
            /\ UNCHANGED <<results, faults>>
    /\ UNCHANGED <<now, beatDone, date, schedQ, genQ, predictions, fetch>>

\* One attempt of prediction_model.predict under the tenacity decorator: the
\* engine is invoked; a failure sleeps and re-enters predict until the third
\* attempt, whose failure leaves the decorator as a RetryError.
Predict(r, ok) ==
    /\ r.pc = "predict"
    /\ LET called == [r EXCEPT !.calls = r.calls + 1] IN
        IF ok
        THEN /\ running' = (running (-) SetToBag({r}))
                               (+) SetToBag({[called EXCEPT !.pc = "persist"]})
             /\ UNCHANGED <<genQ, results, faults>>
        ELSE /\ faults < MaxFaults
             /\ faults' = faults + 1
             /\ IF r.attempt < stop_after_attempt
                THEN /\ running' = (running (-) SetToBag({r}))
                                       (+) SetToBag({[called EXCEPT
                                               !.attempt = r.attempt + 1,
                                               !.waits = Append(r.waits, wait_exponential(r.attempt))]})
                     /\ UNCHANGED <<genQ, results>>
                ELSE RetryGenerate(r, called)
    /\ UNCHANGED <<now, beatDone, date, schedQ, predictions, fetch>>

\* A persist step that lets a failed insert pass: nothing is written and the
\* task still returns {"status": "success"}
Persist_returning_success_on_failure(r, ok) ==
    /\ r.pc = "persist"
    /\ IF ok
       THEN /\ predictions' = predictions (+) SetToBag({PredictionRow(r.game)})
            /\ UNCHANGED faults
       ELSE /\ faults < MaxFaults
            /\ faults' = faults + 1
            /\ UNCHANGED predictions
    /\ running' = running (-) SetToBag({r})
    /\ results' = results (+) SetToBag({Result(r, "success")})
    /\ UNCHANGED <<now, beatDone, date, schedQ, genQ, fetch>>

\* saved_prediction = create_prediction(prediction_create): the insert adds a
\* row under a fresh uuid, or fails and raises SupabaseException.
Persist(r, ok) ==
    /\ r.pc = "persist"
    /\ IF ok
       THEN /\ predictions' = predictions (+) SetToBag({PredictionRow(r.game)})
            /\ running' = running (-) SetToBag({r})
            /\ results' = results (+) SetToBag({Result(r, "success")})
            /\ UNCHANGED <<genQ, faults>>
       ELSE /\ faults < MaxFaults
            /\ faults' = faults + 1
            /\ RetryGenerate(r, r)
            /\ UNCHANGED predictions
    /\ UNCHANGED <<now, beatDone, date, schedQ, fetch>>

-----------------------------------------------------------------------------
(* The task system: beat, the scheduler tasks and the workers *)

Init ==
    /\ now = 0
    /\ beatDone = FALSE
    /\ date \in [Games -> StartTimes \cup {NoDate}]
    /\ schedQ = EmptyBag
    /\ genQ = EmptyBag
    /\ running = EmptyBag
    /\ results = EmptyBag
    /\ predictions = EmptyBag
    /\ faults = 0
    /\ fetch = AllOk
    /\ order = [i \in 1 .. NumGames |-> i]
    /\ sent = <<>>
    /\ summary = None
    /\ gamesTable = {}
    /\ conf = None
    /\ llm = DefaultLlm
    /\ news = None
    /\ arg = None
    /\ ret = None

Next ==
    \/ Beat /\ UNCHANGED aux
    \/ Advance /\ UNCHANGED aux
    \/ \E m \in BagToSet(schedQ), ok \in BOOLEAN :
          schedule_game_predictions(m, ok) /\ UNCHANGED aux
    \/ \E m \in BagToSet(schedQ), ok \in BOOLEAN :
          check_new_games(m, ok) /\ UNCHANGED aux
    \/ \E m \in BagToSet(schedQ), ok \in BOOLEAN :
          reschedule_missed_predictions(m, ok) /\ UNCHANGED aux
    \/ \E m \in BagToSet(genQ) : StartGenerate(m) /\ UNCHANGED aux
    \/ \E r \in BagToSet(running), d \in PrepareResults :
          PrepareGameData(r, d) /\ UNCHANGED aux
    \/ \E r \in BagToSet(running), ok \in BOOLEAN : Predict(r, ok) /\ UNCHANGED aux
    \/ \E r \in BagToSet(running), ok \in BOOLEAN : Persist(r, ok) /\ UNCHANGED aux

Spec == Init /\ [][Next]_vars

-----------------------------------------------------------------------------
(* One aggregation followed through the task body: the collaborator outcomes
   are drawn at the start and the task runs on them. *)

InitAgg ==
    /\ now = T(0, 30, 0)
    /\ beatDone = TRUE
    /\ date = [g \in Games |-> T(1, 30, 0)]
    /\ schedQ = EmptyBag
    /\ genQ = EmptyBag
    /\ running = SetToBag({Exec(1, 0, "schedule", 0, "prepare", 0, <<>>, FALSE)})
    /\ results = EmptyBag
    /\ predictions = EmptyBag
    /\ faults = 0
    /\ fetch \in FetchOutcomes
    /\ order = [i \in 1 .. NumGames |-> i]
    /\ sent = <<>>
    /\ summary = None
    /\ gamesTable = {}
    /\ conf = None
    /\ llm = DefaultLlm
    /\ news = None
    /\ arg = None
    /\ ret = None

NextAgg ==
    \/ \E r \in BagToSet(running) :
          PrepareGameData(r, prepare_game_data(fetch)) /\ UNCHANGED aux
    \/ \E r \in BagToSet(running), ok \in BOOLEAN : Predict(r, ok) /\ UNCHANGED aux
    \/ \E r \in BagToSet(running), ok \in BOOLEAN : Persist(r, ok) /\ UNCHANGED aux

SpecAgg == InitAgg /\ [][NextAgg]_vars

-----------------------------------------------------------------------------
(* One generation followed from the engine's answer to the stored row: the
   answer is drawn at the start, the collaborators of the aggregation work. *)

InitRow ==
    /\ now = T(0, 30, 0)
    /\ beatDone = TRUE
    /\ date = [g \in Games |-> T(1, 30, 0)]
    /\ schedQ = EmptyBag
    /\ genQ = EmptyBag
    /\ running = SetToBag({Exec(1, 0, "schedule", 0, "prepare", 0, <<>>, FALSE)})
    /\ results = EmptyBag
    /\ predictions = EmptyBag
    /\ faults = 0
    /\ fetch = AllOk
    /\ order = [i \in 1 .. NumGames |-> i]
    /\ sent = <<>>
    /\ summary = None
    /\ gamesTable = {}
    /\ conf = None
    /\ llm \in LlmOutputs
    /\ news = None
    /\ arg = None
    /\ ret = None

SpecRow == InitRow /\ [][NextAgg]_vars

-----------------------------------------------------------------------------
(* Confidence calibration: _calibrate_confidence of the two prediction models.
   Confidences are fixed-point numbers in thousandths (0.7 is 700); the raw
   values studied are multiples of 0.05, on which the arithmetic is exact. *)

\* model._calibrate_confidence(raw) on the LangChain model, for both raw
\* values under study
LangChainCalibrate ==
    /\ conf # None
    /\ conf.langchain = None
    /\ conf' = [conf EXCEPT !.langchain = [a |-> calibrate_confidence(conf.a),
                                           b |-> calibrate_confidence(conf.b)]]
    /\ UNCHANGED <<now, beatDone, date, schedQ, genQ, running, results,
                   predictions, faults, fetch, order, sent, summary, gamesTable>>
    /\ UNCHANGED study

\* The same two calls on the simple model
SimpleCalibrate ==
    /\ conf # None
    /\ conf.simple = None
    /\ conf' = [conf EXCEPT !.simple =
                     [a |-> SimplePredictionModel_calibrate_confidence(conf.a),
                      b |-> SimplePredictionModel_calibrate_confidence(conf.b)]]
    /\ UNCHANGED <<now, beatDone, date, schedQ, genQ, running, results,
                   predictions, faults, fetch, order, sent, summary, gamesTable>>
    /\ UNCHANGED study

InitCal ==
    /\ now = 0
    /\ beatDone = TRUE
    /\ date = [g \in Games |-> NoDate]
    /\ schedQ = EmptyBag
    /\ genQ = EmptyBag
    /\ running = EmptyBag
    /\ results = EmptyBag
    /\ predictions = EmptyBag
    /\ faults = 0
    /\ fetch = AllOk
    /\ order = [i \in 1 .. NumGames |-> i]
    /\ sent = <<>>
    /\ summary = None
    /\ gamesTable = {}
    /\ conf \in [a : RawConfidences, b : RawConfidences,
                  langchain : {None}, simple : {None}]
    /\ llm = DefaultLlm
    /\ news = None
    /\ arg = None
    /\ ret = None

NextCal ==
    \/ LangChainCalibrate
    \/ SimpleCalibrate

SpecCal == InitCal /\ [][NextCal]_vars

-----------------------------------------------------------------------------
(* Ingestion: ingest_nba_data.  The fetched batch is the sequence 'order' of
   game ids; id 0 stands for a record that carries no 'id'. *)

MaxBatch == 3

MaxId == 2

\* The batches get_upcoming_games(days_ahead=7) may return
Batches == UNION {[1 .. n -> 0 .. MaxId] : n \in 0 .. MaxBatch}

\* prediction_service.store_historical_game_data on the 'games' table: a
\* record without id is skipped with a warning, any other is upserted on its
\* id.  No task and no route calls it.
store_historical_game_data(table, game_id) ==
    IF game_id = 0 THEN table ELSE table \cup {game_id}

ingest_nba_data(m, ok) ==
    /\ m.task = "ingest"
    /\ m.eta <= now
    /\ IF ok
       THEN /\ summary' = [status |-> "success", games_ingested |-> Len(order)]
            /\ schedQ' = schedQ (-) SetToBag({m})
            /\ UNCHANGED faults
       ELSE /\ faults < MaxFaults
            /\ faults' = faults + 1
            /\ schedQ' = (schedQ (-) SetToBag({m})) (+) RetrySched(m)
            /\ UNCHANGED summary
    /\ UNCHANGED <<now, beatDone, date, genQ, running, results, predictions,
                   fetch, order, sent, gamesTable, conf>>
    /\ UNCHANGED study

\* Two ingestion runs over the same fetched batch
InitIngest ==
    /\ now = 0
    /\ beatDone = TRUE
    /\ date = [g \in Games |-> NoDate]
    /\ schedQ = SetToBag({SchedMsg("ingest", 0, 0, 0)}) (+) SetToBag({SchedMsg("ingest", 0, 0, 0)})
    /\ genQ = EmptyBag
    /\ running = EmptyBag
    /\ results = EmptyBag
    /\ predictions = EmptyBag
    /\ faults = 0
    /\ fetch = AllOk
    /\ order \in Batches
    /\ sent = <<>>
    /\ summary = None
    /\ gamesTable = {}
    /\ conf = None
    /\ llm = DefaultLlm
    /\ news = None
    /\ arg = None
    /\ ret = None

\* The clock passes a retry delay while a retry waits for its ETA
Elapse ==
    /\ \E m \in BagToSet(schedQ) : m.eta > now
    /\ now + default_retry_delay <= MaxTime
    /\ now' = now + default_retry_delay
    /\ UNCHANGED <<beatDone, date, schedQ, genQ, running, results, predictions,
                   faults, fetch, order, sent, summary, gamesTable, conf>>
    /\ UNCHANGED study

NextIngest ==
    \/ \E m \in BagToSet(schedQ), ok \in BOOLEAN : ingest_nba_data(m, ok)
    \/ Elapse

SpecIngest == InitIngest /\ [][NextIngest]_vars

-----------------------------------------------------------------------------
(* One planner run and one emergency sweep over a catalogue of several games,
   with the order of the apply_async calls and the returned summaries. *)

NumPlanGames == 2

\* The orders in which get_upcoming_games may list the games
Orders ==
    {f \in [1 .. NumPlanGames -> 1 .. NumPlanGames] :
        \A i, j \in 1 .. NumPlanGames : i # j => f[i] # f[j]}

\* The apply_async calls of the loop 'for game in upcoming_games', in order
ScheduledCalls(t) ==
    LET Chosen(g) == g \in ScheduledGames(t)
        ids == SelectSeq(order, Chosen)
    IN  [i \in 1 .. Len(ids) |->
            GenMsg(ids[i], calculate_prediction_time(date[ids[i]]), 0, "schedule", 0)]

\* The apply_async calls of the loop 'for game in imminent_games', in order
EmergencyCalls(t) ==
    LET Chosen(g) == g \in ImminentGames(t)
        ids == SelectSeq(order, Chosen)
    IN  [i \in 1 .. Len(ids) |-> GenMsg(ids[i], t + EmergencyCountdown, 0, "rescue", 0)]

\* A run of schedule_game_predictions together with what it calls and returns
ScheduleRun(m, ok) ==
    /\ schedule_game_predictions(m, ok)
    /\ sent' = IF ok THEN ScheduledCalls(now) ELSE <<>>
    /\ summary' = IF ok
                  THEN [status |-> "success",
                        predictions_scheduled |-> Len(ScheduledCalls(now))]
                  ELSE summary
    /\ UNCHANGED <<order, gamesTable, conf>>
    /\ UNCHANGED study

\* A run of reschedule_missed_predictions together with what it calls and
\* returns
RescueRun(m, ok) ==
    /\ reschedule_missed_predictions(m, ok)
    /\ sent' = IF ok THEN EmergencyCalls(now) ELSE <<>>
    /\ summary' = IF ok
                  THEN [status |-> "success",
                        emergency_predictions |-> Len(EmergencyCalls(now))]
                  ELSE summary
    /\ UNCHANGED <<order, gamesTable, conf>>
    /\ UNCHANGED study

InitPlan ==
    /\ now \in {0, T(0, 45, 0)}
    /\ beatDone = TRUE
    /\ date \in [1 .. NumPlanGames -> StartTimes \cup {NoDate, BadDate}]
    /\ schedQ = SetToBag({SchedMsg("schedule", now, 0, 0), SchedMsg("rescue", now, 0, 0)})
    /\ genQ = EmptyBag
    /\ running = EmptyBag
    /\ results = EmptyBag
    /\ predictions = EmptyBag
    /\ faults = 0
    /\ fetch = AllOk
    /\ order \in Orders
    /\ sent = <<>>
    /\ summary = None
    /\ gamesTable = {}
    /\ conf = None
    /\ llm = DefaultLlm
    /\ news = None
    /\ arg = None
    /\ ret = None

NextPlan ==
    \/ \E m \in BagToSet(schedQ), ok \in BOOLEAN : ScheduleRun(m, ok)
    \/ \E m \in BagToSet(schedQ), ok \in BOOLEAN : RescueRun(m, ok)
    \/ Elapse

SpecPlan == InitPlan /\ [][NextPlan]_vars

-----------------------------------------------------------------------------
(* batch_predict of the two prediction models.  The argument is the list of
   inputs, each given by what predict does on it ("ok" or "fail"); a
   prediction is named by the position of its input. *)

MaxInputs == 5

InputLists == UNION {[1 .. n -> {"ok", "fail"}] : n \in 0 .. MaxInputs}

RECURSIVE BatchLoop(_, _, _, _, _)
\* for input_data in inputs: try: results.append(await self.predict(input_data))
\* except Exception: errors.append(...)
BatchLoop(inputs, i, done, errors, calls) ==
    IF i > Len(inputs)
    THEN [results |-> done, errors |-> errors, calls |-> calls]
    ELSE IF inputs[i] = "ok"
         THEN BatchLoop(inputs, i + 1, Append(done, i), errors, Append(calls, i))
         ELSE BatchLoop(inputs, i + 1, done, Append(errors, i), Append(calls, i))

RECURSIVE BatchLoopStopping(_, _, _, _, _)
\* A loop that a failing input ends
BatchLoopStopping(inputs, i, done, errors, calls) ==
    IF i > Len(inputs)
    THEN [results |-> done, errors |-> errors, calls |-> calls]
    ELSE IF inputs[i] = "ok"
         THEN BatchLoopStopping(inputs, i + 1, Append(done, i), errors, Append(calls, i))
         ELSE [results |-> done, errors |-> Append(errors, i), calls |-> Append(calls, i)]

\* A batch_predict whose first failing input ends the loop
batch_predict_stopping_at_first_failure(inputs) ==
    LET end == BatchLoopStopping(inputs, 1, <<>>, <<>>, <<>>)
    IN  [raised |-> end.errors # <<>> /\ end.results = <<>>,
         results |-> end.results, calls |-> end.calls]

\* LangChainPredictionModel.batch_predict: 'if errors and not results' raises
\* PredictionError, otherwise the results are returned
batch_predict(inputs) ==
    LET end == BatchLoop(inputs, 1, <<>>, <<>>, <<>>)
    IN  [raised |-> end.errors # <<>> /\ end.results = <<>>,
         results |-> end.results, calls |-> end.calls]

\* SimplePredictionModel.batch_predict: the results are returned whatever
\* failed
SimplePredictionModel_batch_predict(inputs) ==
    LET end == BatchLoop(inputs, 1, <<>>, <<>>, <<>>)
    IN  [raised |-> FALSE, results |-> end.results, calls |-> end.calls]

LangChainBatchPredict ==
    /\ arg # None
    /\ ret.langchain = None
    /\ ret' = [ret EXCEPT !.langchain = batch_predict(arg.inputs)]
    /\ UNCHANGED <<now, beatDone, date, schedQ, genQ, running, results,
                   predictions, faults, fetch, order, sent, summary, gamesTable,
                   conf, llm, news, arg>>

SimpleBatchPredict ==
    /\ arg # None
    /\ ret.simple = None
    /\ ret' = [ret EXCEPT !.simple = SimplePredictionModel_batch_predict(arg.inputs)]
    /\ UNCHANGED <<now, beatDone, date, schedQ, genQ, running, results,
                   predictions, faults, fetch, order, sent, summary, gamesTable,
                   conf, llm, news, arg>>

\* Everything but the call under study at rest
Idle ==
    /\ now = 0
    /\ beatDone = TRUE
    /\ date = [g \in Games |-> NoDate]
    /\ schedQ = EmptyBag
    /\ genQ = EmptyBag
    /\ running = EmptyBag
    /\ results = EmptyBag
    /\ predictions = EmptyBag
    /\ faults = 0
    /\ fetch = AllOk
    /\ order = [i \in 1 .. NumGames |-> i]
    /\ sent = <<>>
    /\ summary = None
    /\ gamesTable = {}
    /\ conf = None
    /\ llm = DefaultLlm

InitBatch ==
    /\ Idle
    /\ news = None
    /\ arg \in [call : {"batch_predict"}, inputs : InputLists]
    /\ ret = [langchain |-> None, simple |-> None]

NextBatch ==
    \/ LangChainBatchPredict
    \/ SimpleBatchPredict

SpecBatch == InitBatch /\ [][NextBatch]_vars

-----------------------------------------------------------------------------
(* The prediction workflow service, used while the ingestion beats run. *)

\* Names app.workers.tasks binds at module level: its tasks and helpers
TasksNames ==
    {"ingest_nba_data", "schedule_game_predictions", "generate_prediction",
     "update_game_results", "_prepare_game_data", "check_new_games",
     "reschedule_missed_predictions", "celery_app", "logger"}

\* from app.workers.tasks import ingest_nba_data, schedule_and_generate_predictions
WorkflowImports == {"ingest_nba_data", "schedule_and_generate_predictions"}

\* Loading the service module: an imported name the source module lacks
\* raises ImportError
ImportOutcome == IF WorkflowImports \subseteq TasksNames THEN "" ELSE "ImportError"

\* What a step does when called: return status success, return another
\* status, or raise
StepOutcomes == {"success", "error", "raise"}

\* The body of run_prediction_workflow on the outcomes of its two steps
run_prediction_workflow(step1, step2) ==
    LET after1 == IF step1 = "success" THEN "success" ELSE "partial_success"
        after2 == IF step2 = "success" THEN after1 ELSE "partial_success"
    IN  [raised |-> "",
         attempted |-> <<"ingest_nba_data", "schedule_and_generate_predictions">>,
         steps |-> <<step1, step2>>,
         status |-> after2]

\* A caller loads the service and runs the workflow
CallWorkflow ==
    /\ arg # None
    /\ ret = None
    /\ \E step1 \in StepOutcomes, step2 \in StepOutcomes :
           ret' = IF ImportOutcome = ""
                  THEN run_prediction_workflow(step1, step2)
                  ELSE [raised |-> ImportOutcome, attempted |-> <<>>,
                        steps |-> <<>>, status |-> ""]
    /\ UNCHANGED <<now, beatDone, date, schedQ, genQ, running, results,
                   predictions, faults, fetch, order, sent, summary, gamesTable,
                   conf, llm, news, arg>>

InitFlow ==
    /\ now = 0
    /\ beatDone = TRUE
    /\ date = [g \in Games |-> NoDate]
    /\ schedQ = SetToBag({SchedMsg("ingest", 0, 0, 0)}) (+) SetToBag({SchedMsg("ingest", 0, 0, 0)})
    /\ genQ = EmptyBag
    /\ running = EmptyBag
    /\ results = EmptyBag
    /\ predictions = EmptyBag
    /\ faults = 0
    /\ fetch = AllOk
    /\ order \in Batches
    /\ sent = <<>>
    /\ summary = None
    /\ gamesTable = {}
    /\ conf = None
    /\ llm = DefaultLlm
    /\ news = None
    /\ arg = [call |-> "workflow"]
    /\ ret = None

NextFlow ==
    \/ NextIngest
    \/ CallWorkflow

SpecFlow == InitFlow /\ [][NextFlow]_vars

-----------------------------------------------------------------------------
(* The two emergency paths on one game: handle_emergency_prediction of
   chron_schedule and the loop of reschedule_missed_predictions, each asked at
   the same instant about the same start time. *)

MaxSlots == 60

\* Start times from 00:00 to 05:00 in steps of five minutes
EmergencyStartTimes == {k * T(0, 5, 0) : k \in 0 .. MaxSlots}

\* apply_async called without expires
NoExpires == -1

\* handle_emergency_prediction(game_id, game_time) at time t: what it passes to
\* apply_async, if it schedules
handle_emergency_prediction(game_time, t) ==
    IF game_time <= t THEN [scheduled |-> FALSE]
    ELSE IF game_time - t > T(3, 0, 0) THEN [scheduled |-> FALSE]
    ELSE [scheduled |-> TRUE, eta |-> t + EmergencyCountdown, expires |-> game_time]

\* What reschedule_missed_predictions does about game g at time t
sweep_emergency_prediction(g, t) ==
    IF g \in ImminentGames(t)
    THEN [scheduled |-> TRUE, eta |-> t + EmergencyCountdown, expires |-> NoExpires]
    ELSE [scheduled |-> FALSE]

HandleEmergency ==
    /\ arg # None
    /\ ret.handle = None
    /\ ret' = [ret EXCEPT !.handle = handle_emergency_prediction(date[arg.game], now)]
    /\ UNCHANGED <<now, beatDone, date, schedQ, genQ, running, results,
                   predictions, faults, fetch, order, sent, summary, gamesTable,
                   conf, llm, news, arg>>

SweepEmergency ==
    /\ arg # None
    /\ ret.sweep = None
    /\ ret' = [ret EXCEPT !.sweep = sweep_emergency_prediction(arg.game, now)]
    /\ UNCHANGED <<now, beatDone, date, schedQ, genQ, running, results,
                   predictions, faults, fetch, order, sent, summary, gamesTable,
                   conf, llm, news, arg>>

InitEmergency ==
    /\ now \in {T(1, 0, 0), T(1, 0, 0) + 1}
    /\ beatDone = TRUE
    /\ date \in [Games -> EmergencyStartTimes]
    /\ schedQ = EmptyBag
    /\ genQ = EmptyBag
    /\ running = EmptyBag
    /\ results = EmptyBag
    /\ predictions = EmptyBag
    /\ faults = 0
    /\ fetch = AllOk
    /\ order = [i \in 1 .. NumGames |-> i]
    /\ sent = <<>>
    /\ summary = None
    /\ gamesTable = {}
    /\ conf = None
    /\ llm = DefaultLlm
    /\ news = None
    /\ arg \in [call : {"emergency"}, game : Games]
    /\ ret = [handle |-> None, sweep |-> None]

NextEmergency ==
    \/ HandleEmergency
    \/ SweepEmergency

SpecEmergency == InitEmergency /\ [][NextEmergency]_vars

-----------------------------------------------------------------------------
(* The article cache of news_ingestion: the module-level article_cache and
   seen_urls, and calls of a feed fetcher (fetch_espn_nba_news and its two
   siblings have the same loop) running on one event loop, where a call gives
   up control at 'await fetch_url(url)'. *)

NumUrls == 2

NumFetches == 2

Urls == 1 .. NumUrls

Fetches == 1 .. NumFetches

\* CACHE_TTL = 3600
CACHE_TTL == 3600

\* feed.entries: the links of the feed, in order
FeedLists == UNION {[1 .. n -> Urls] : n \in 1 .. NumUrls}

\* A call of the fetcher: position, index of the entry at hand, the list
\* 'articles', the number of times the cached-data branch was taken, the
\* tenacity attempt and the current_time read before the await
Fetcher(pc, i, articles, hits, attempt, current_time) ==
    [pc |-> pc, i |-> i, articles |-> articles, hits |-> hits,
     attempt |-> attempt, current_time |-> current_time]

\* url in article_cache
InCache(cache, url) == \E c \in cache : c.url = url

\* cache_time of article_cache[url]
CacheTime(cache, url) == (CHOOSE c \in cache : c.url = url).time

\* article_cache[url] = (current_time, article_data)
CachePut(cache, url, t) == {c \in cache : c.url # url} \cup {[url |-> url, time |-> t]}

\* fetch_espn_nba_news() is called
StartFetch(f) ==
    /\ news.fetches[f].pc = "idle"
    /\ news' = [news EXCEPT !.fetches[f] = Fetcher("check", 1, <<>>, 0, 1, 0)]

\* for entry in feed.entries: the seen_urls test, then the cache test, then
\* on to 'await fetch_url(url)'; after the last entry the list is returned
CheckEntry(f) ==
    LET c == news.fetches[f] IN
    /\ c.pc = "check"
    /\ IF c.i > Len(news.feed)
       THEN news' = [news EXCEPT !.fetches[f].pc = "done"]
       ELSE LET url == news.feed[c.i] IN
            IF url \in news.seen_urls
            THEN news' = [news EXCEPT !.fetches[f].i = c.i + 1]
            ELSE IF InCache(news.article_cache, url)
                    /\ now - CacheTime(news.article_cache, url) < CACHE_TTL
                 THEN news' = [news EXCEPT !.fetches[f].articles = Append(c.articles, url),
                                           !.fetches[f].hits = c.hits + 1,
                                           !.fetches[f].i = c.i + 1]
                 ELSE news' = [news EXCEPT !.fetches[f].pc = "await",
                                           !.fetches[f].current_time = now]

\* fetch_url returns and the article is stored, marked seen and appended; or
\* it raises NewsIngestionError and the entry is skipped; or another
\* exception leaves the loop, is wrapped in NewsIngestionError and makes
\* tenacity call the function again, up to the third attempt
FetchUrl(f, outcome) ==
    LET c == news.fetches[f]
        url == news.feed[c.i]
    IN
    /\ c.pc = "await"
    /\ CASE outcome = "ok" ->
               news' = [news EXCEPT
                           !.article_cache = CachePut(news.article_cache, url, c.current_time),
                           !.seen_urls = news.seen_urls \cup {url},
                           !.fetches[f].articles = Append(c.articles, url),
                           !.fetches[f].i = c.i + 1,
                           !.fetches[f].pc = "check"]
         [] outcome = "skip" ->
               news' = [news EXCEPT !.fetches[f].i = c.i + 1,
                                    !.fetches[f].pc = "check"]
         [] outcome = "error" ->
               IF c.attempt < stop_after_attempt
               THEN news' = [news EXCEPT !.fetches[f] =
                                Fetcher("check", 1, <<>>, c.hits, c.attempt + 1, 0)]
               ELSE news' = [news EXCEPT !.fetches[f] =
                                Fetcher("raised", c.i, <<>>, c.hits, c.attempt, 0)]

\* Half a cache lifetime passes
NewsElapse ==
    /\ now + CACHE_TTL \div 2 <= MaxTime
    /\ now' = now + CACHE_TTL \div 2
    /\ UNCHANGED news

InitNews ==
    /\ Idle
    /\ arg = None
    /\ ret = None
    /\ news \in [seen_urls : {{}}, article_cache : {{}}, feed : FeedLists,
                  fetches : {[f \in Fetches |-> Fetcher("idle", 1, <<>>, 0, 1, 0)]}]

\* What the fetchers leave alone
outside_news ==
    <<beatDone, date, schedQ, genQ, running, results, predictions, faults, fetch,
      order, sent, summary, gamesTable, conf, llm, arg, ret>>

NextNews ==
    \/ \E f \in Fetches : StartFetch(f) /\ UNCHANGED <<now, outside_news>>
    \/ \E f \in Fetches : CheckEntry(f) /\ UNCHANGED <<now, outside_news>>
    \/ \E f \in Fetches, outcome \in {"ok", "skip", "error"} :
          FetchUrl(f, outcome) /\ UNCHANGED <<now, outside_news>>
    \/ NewsElapse /\ UNCHANGED outside_news

SpecNews == InitNews /\ [][NextNews]_vars

-----------------------------------------------------------------------------
(* Properties *)

\* Number of records of bag b that satisfy the test
CountIn(b, Test(_)) ==
    LET S == {x \in BagToSet(b) : Test(x)}
    IN  BagCardinality([x \in S |-> CopiesIn(x, b)])

RunningFor(g) == LET Is(x) == x.game = g IN CountIn(running, Is)

\* Planner dispatches (messages of first executions) queued for game g
DispatchedFor(g) ==
    LET Is(x) == x.game = g /\ x.retries = 0 /\ x.origin = "schedule"
    IN  CountIn(genQ, Is)

\* C1: at most one Prediction row per (agentID, gameID) ever exists.
C1_AtMostOnePrediction == \A g \in Games : RowsFor(g) <= 1

\* C2: at most one generation task for a given (agentID, gameID) is executing
\* in any reachable state.
C2_MutualExclusion == \A g \in Games : RunningFor(g) <= 1

\* C3: a Generate that starts when a Prediction already exists for the game
\* is a no-op: it never gets past its entry, so it makes no aggregation call,
\* no engine call and no store write.
C3_ExistingIsNoOp ==
    \A r \in BagToSet(running) : r.existed => r.pc = "prepare"

Lookahead == T(0, 15, 0)

IsDue(g, t) ==
    /\ date[g] # NoDate
    /\ calculate_prediction_time(date[g]) <= t
    /\ t < calculate_prediction_time(date[g]) + Lookahead
    /\ RowsFor(g) = 0

NormalMsg(g) == GenMsg(g, calculate_prediction_time(date[g]), 0, "schedule", 0)

\* C4: a planner run dispatches a game if and only if
\* start_time - lead <= now < start_time - lead + lookahead and no prediction
\* exists for it.
C4_DueWindow ==
    [][\A m \in BagToSet(schedQ) :
          schedule_game_predictions(m, TRUE) =>
              \A g \in Games :
                  (CopiesIn(NormalMsg(g), genQ') > CopiesIn(NormalMsg(g), genQ))
                      <=> IsDue(g, now)]_vars

\* C5: once a Prediction exists for a game, no later planner run dispatches
\* the game and no generation for it starts again.
C5_CompletedIsTerminal ==
    [][\A g \in Games :
          RowsFor(g) >= 1 =>
              /\ DispatchedFor(g)' <= DispatchedFor(g)
              /\ RunningFor(g)' <= RunningFor(g)]_vars

\* C6: a dispatched game is executed at most 3 times and its engine is invoked
\* at most 3 times; after 3 failed attempts no further retry is queued.
C6_RetryBound ==
    /\ \A m \in BagToSet(genQ) : m.retries + 1 <= 3 /\ m.calls <= 3
    /\ \A r \in BagToSet(running) : r.retries + 1 <= 3 /\ r.calls <= 3

\* C7: when the engine fails on attempts 1 and 2 and succeeds on attempt 3,
\* the waits before attempts 2 and 3 were 2s and 4s, two retries were made and
\* the run persists exactly one Prediction.
C7_RetryThenSucceed ==
    [][\A r \in BagToSet(running) :
          (Persist(r, TRUE) /\ r.retries = 0 /\ r.attempt = 3) =>
              /\ r.waits = <<2, 4>>
              /\ Len(r.waits) = 2
              /\ RowsFor(r.game)' = RowsFor(r.game) + 1]_vars

EmergencyMsg(g) == GenMsg(g, now + EmergencyCountdown, 0, "rescue", 0)

\* C8: the emergency sweep selects a game if and only if it starts after now,
\* within 3 hours, and has no prediction.
C8_EmergencyScope ==
    [][\A m \in BagToSet(schedQ) :
          reschedule_missed_predictions(m, TRUE) =>
              \A g \in Games :
                  (CopiesIn(EmergencyMsg(g), genQ') > CopiesIn(EmergencyMsg(g), genQ))
                      <=> /\ date[g] # NoDate
                          /\ now < date[g]
                          /\ date[g] < now + T(3, 0, 0)
                          /\ RowsFor(g) = 0]_vars

\* Emergency generation tasks of game g, wherever they are: on the broker,
\* executing, or finished
EmergencyTasks(g) ==
    LET Is(x) == x.game = g /\ x.origin = "rescue"
    IN  CountIn(genQ, Is) + CountIn(running, Is) + CountIn(results, Is)

\* C9: over all sweeps a game receives at most one emergency generation
\* attempt, and that attempt is never retried.
C9_OneEmergencyAttempt ==
    /\ \A g \in Games : EmergencyTasks(g) <= 1
    /\ \A x \in BagToSet(genQ) \cup BagToSet(running) \cup BagToSet(results) :
          x.origin = "rescue" => x.retries = 0

\* The value the returned context holds for a sub-fetch
ContextValue(d, f) ==
    CASE f = "home_stats" -> d.structured_data.home_team_stats
      [] f = "away_stats" -> d.structured_data.away_team_stats
      [] f = "home_news" -> d.unstructured_data.home_team_news
      [] f = "away_news" -> d.unstructured_data.away_team_news
      [] f = "home_injuries" -> d.unstructured_data.home_team_injuries
      [] f = "away_injuries" -> d.unstructured_data.away_team_injuries

Prepared == \A r \in BagToSet(running) : r.pc # "prepare"

\* C10: when the game lookup succeeds and some but not all sub-fetches fail,
\* the aggregation still returns a context, with an 'unavailable' sentinel for
\* each failed sub-fetch and a manifest naming them, and generation proceeds
\* to the engine.
C10_PartialTolerance ==
    (/\ Prepared
     /\ fetch.game = "ok"
     /\ FailedFetches(fetch) # {}
     /\ FailedFetches(fetch) # SubFetches)
        => /\ prepare_game_data(fetch) # None
           /\ \A x \in BagToSet(results) : x.status # "error"
           /\ \A f \in FailedFetches(fetch) :
                 ContextValue(prepare_game_data(fetch), f) = "unavailable"
           /\ "manifest" \in DOMAIN prepare_game_data(fetch)

\* C11: when the base game lookup fails (the game is not found or the lookup
\* raises), the aggregation returns its error, the engine is never invoked for
\* that attempt and no Prediction is persisted.
C11_TotalAggregationFailure ==
    fetch.game # "ok" =>
        /\ prepare_game_data(fetch) = None
        /\ \A r \in BagToSet(running) : r.pc = "prepare" /\ r.calls = 0
        /\ \A x \in BagToSet(results) : x.status = "error" /\ x.calls = 0
        /\ predictions = EmptyBag

C11_Witness ==
    /\ fetch.game \in {"missing", "raise"}
    /\ running = EmptyBag
    /\ \E x \in BagToSet(results) : x.status = "error" /\ x.calls = 0

\* What C12 says of one raw confidence and its calibrated value
Calibrated(raw, cal) ==
    /\ 0 <= cal /\ cal <= Unit
    /\ (0 <= raw /\ raw <= Unit) =>
          /\ Unit * cal = 700 * raw + 210 * Unit
          /\ raw = 0 => cal = 210
          /\ raw = Unit => cal = 910
          /\ raw = 700 => cal = 700
          /\ raw > 700 => cal < raw
          /\ raw < 700 => cal > raw

FinishedFor(g, status) ==
    LET Is(x) == x.game = g /\ x.status = status IN CountIn(results, Is)

\* generate_prediction messages on the broker for game g
QueuedFor(g) == LET Is(x) == x.game = g IN CountIn(genQ, Is)

\* C13: an attempt that reaches persistence either writes one complete
\* Prediction row and ends in success, or, when the store fails, leaves the
\* table unchanged and ends in failure (a retry or a failed task), never in a
\* success result.
C13_StoreFailure ==
    [][\A r \in BagToSet(running) :
          (r.pc = "persist" /\ CopiesIn(r, running') < CopiesIn(r, running)) =>
              \/ /\ predictions' = predictions (+) SetToBag({PredictionRow(r.game)})
                 /\ DOMAIN PredictionRow(r.game) =
                        {"agent_id", "game_id", "pick", "logic", "confidence", "result"}
                 /\ FinishedFor(r.game, "success")' = FinishedFor(r.game, "success") + 1
              \/ /\ predictions' = predictions
                 /\ FinishedFor(r.game, "success")' = FinishedFor(r.game, "success")
                 /\ FinishedFor(r.game, "error")' = FinishedFor(r.game, "error")
                 /\ \/ FinishedFor(r.game, "failure")' = FinishedFor(r.game, "failure") + 1
                    \/ QueuedFor(r.game)' = QueuedFor(r.game) + 1]_vars

\* The store failed on the first attempt, after one successful engine call:
\* the task is back on the broker and the table is empty
C13_Witness ==
    /\ predictions = EmptyBag
    /\ \E m \in BagToSet(genQ) : m.retries = 1 /\ m.calls = 1

\* C14: within one execution of generate_prediction the engine is invoked
\* once: a failed invocation is not repeated inside the task or inside the
\* engine client, it ends the attempt.
C14_SingleEngineInvocation ==
    \A r \in BagToSet(running) : r.attempt <= 1 /\ r.waits = <<>>

RECURSIVE StoreAll(_, _)
\* The 'games' table after store_historical_game_data on every record of a
\* batch, in order
StoreAll(table, batch) ==
    IF batch = <<>> THEN table
    ELSE StoreAll(store_historical_game_data(table, Head(batch)), Tail(batch))

HasId(game_id) == game_id # 0

\* C15: an ingestion run upserts every fetched game into the store keyed by
\* its id, so that after the run (also a repeated one) the games table holds
\* exactly one record per fetched id next to what it held before, and nothing
\* is deleted.
C15_IngestionUpserts ==
    [][\A m \in BagToSet(schedQ) :
          ingest_nba_data(m, TRUE) =>
              /\ gamesTable' = StoreAll(gamesTable, order)
              /\ \A i \in 1 .. Len(order) : HasId(order[i]) => order[i] \in gamesTable'
              /\ gamesTable \subseteq gamesTable']_vars

\* C16: a bad record of the batch is skipped without aborting the run, every
\* other record is ingested, and the run returns status success with a count
\* equal to the number of games ingested.
C16_BadRecordSkipped ==
    [][\A m \in BagToSet(schedQ) :
          ingest_nba_data(m, TRUE) =>
              /\ summary'.status = "success"
              /\ summary'.games_ingested = Len(SelectSeq(order, HasId))
              /\ \A i \in 1 .. Len(order) : HasId(order[i]) => order[i] \in gamesTable']_vars

\* Game g comes before game h in the order C17 asks for
Before(g, h) == date[g] < date[h] \/ (date[g] = date[h] /\ g < h)

\* C17: the planner dispatches the due games in ascending order of start
\* time, ties broken by game id, whatever the order in which the source lists
\* them.
C17_SortedDispatch ==
    \A i, j \in 1 .. Len(sent) :
        (i < j /\ sent[i].origin = "schedule" /\ sent[j].origin = "schedule")
            => Before(sent[i].game, sent[j].game)

\* Emergency messages queued for game g
EmergencyFor(g) ==
    LET Is(x) == x.game = g /\ x.retries = 0 /\ x.origin = "rescue"
    IN  CountIn(genQ, Is)

\* A scheduler message of the given task left the broker without a fault: the
\* run went through its loop
RanThrough(task) ==
    /\ faults' = faults
    /\ \E m \in BagToSet(schedQ) :
          m.task = task /\ CopiesIn(m, schedQ') < CopiesIn(m, schedQ)

\* Trigger time (start - lead) of game g has passed
TriggerPassed(g) ==
    IsTime(date[g]) /\ calculate_prediction_time(date[g]) <= now

C19_PerItemPlannerErrors ==
    [][RanThrough("schedule") =>
          /\ \A g \in DOMAIN date :
                IF IsTime(date[g]) /\ calculate_prediction_time(date[g]) > now
                THEN DispatchedFor(g)' = DispatchedFor(g) + 1
                ELSE DispatchedFor(g)' = DispatchedFor(g)
          /\ summary' # None
          /\ summary'.status = "success"]_vars

\* A run over one game with a missing or malformed date and one well-formed
\* game: the latter is dispatched and the run returned success
C19_Witness ==
    /\ summary # None
    /\ summary.status = "success"
    /\ "predictions_scheduled" \in DOMAIN summary
    /\ \E g, h \in DOMAIN date :
          /\ date[g] \in {NoDate, BadDate}
          /\ IsTime(date[h])
          /\ DispatchedFor(g) = 0
          /\ DispatchedFor(h) = 1
          /\ summary.predictions_scheduled = 1

\* Tasks of game g that returned a value: the task system records them as
\* completed successfully, whatever the "status" key of the value says
CompletedFor(g) == FinishedFor(g, "success") + FinishedFor(g, "error")

\* C20: every attempt that ends without a persisted Prediction ends in a
\* failure (a retry or a failed task), never in a result the task system
\* treats as completed: each completed task has persisted its Prediction.
C20_NoSwallowedError ==
    \A g \in Games : CompletedFor(g) = RowsFor(g)

\* C21: no retry of a generation the normal path dispatched is executing
\* once the due window [trigger, trigger + lookahead) of its game has elapsed.
C21_RetryWithinWindow ==
    \A r \in BagToSet(running) :
        (r.origin = "schedule" /\ r.retries >= 1 /\ IsTime(date[r.game]))
            => now < calculate_prediction_time(date[r.game]) + Lookahead

\* The confidence C22 expects for a raw confidence of the engine: 0.5 when it
\* is no number, else the raw value brought into [0, 1]; then calibrated
ExpectedConfidence(raw, c) ==
    LET clamped == IF raw = NotAFloat THEN 500
                   ELSE IF raw < 0 THEN 0 ELSE IF raw > Unit THEN Unit ELSE raw
    IN  Unit * c = 700 * clamped + 210 * Unit

\* C22: every successful generation run has persisted exactly one complete
\* Prediction whose agent, game, pick and logic are the engine's, whose
\* confidence is the calibrated value within [0,1] and whose outcome is
\* "pending"; no row with a confidence outside [0,1] is stored.
C22_PersistedRow ==
    /\ \A p \in BagToSet(predictions) :
          /\ DOMAIN p = {"agent_id", "game_id", "pick", "logic", "confidence", "result"}
          /\ p.agent_id = AgentId
          /\ p.game_id \in Games
          /\ p.pick = llm.pick
          /\ p.logic = llm.logic
          /\ ExpectedConfidence(llm.confidence, p.confidence)
          /\ 0 <= p.confidence /\ p.confidence <= Unit
          /\ p.result = "pending"
    /\ \A g \in Games :
          LET Is(p) == p.game_id = g
          IN  CountIn(predictions, Is) = FinishedFor(g, "success")

\* A run whose engine answered a confidence above 1 succeeded and stored 0.91
C22_Witness ==
    /\ llm.confidence > Unit
    /\ FinishedFor(1, "success") = 1
    /\ \E p \in BagToSet(predictions) : p.game_id = 1 /\ p.confidence = 910

\* C23: one run of schedule_game_predictions dispatches exactly one
\* generate_prediction task, with ETA start - 1h, for each fetched game whose
\* start - 1h lies in the future, nothing for any other game, and reports
\* predictions_scheduled equal to the number of tasks dispatched.
C23_OneDispatchPerFutureGame ==
    [][RanThrough("schedule") =>
          /\ \A g \in DOMAIN date :
                IF IsTime(date[g]) /\ date[g] - T(1, 0, 0) > now
                THEN /\ QueuedFor(g)' = QueuedFor(g) + 1
                     /\ CopiesIn(GenMsg(g, date[g] - T(1, 0, 0), 0, "schedule", 0), genQ')
                          = CopiesIn(GenMsg(g, date[g] - T(1, 0, 0), 0, "schedule", 0), genQ) + 1
                ELSE QueuedFor(g)' = QueuedFor(g)
          /\ summary'.predictions_scheduled
                = BagCardinality(genQ') - BagCardinality(genQ)
          /\ summary'.predictions_scheduled = Len(sent')]_vars

\* A run at 00:00 over a game starting 01:00 (start - 1h is not in the future)
\* and a game starting 01:30: one task, for the second game, with ETA 00:30
C23_Witness ==
    /\ now = 0
    /\ summary # None
    /\ "predictions_scheduled" \in DOMAIN summary
    /\ summary.predictions_scheduled = 1
    /\ \E g, h \in DOMAIN date :
          /\ date[g] = T(1, 0, 0)
          /\ date[h] = T(1, 30, 0)
          /\ DispatchedFor(g) = 0
          /\ CopiesIn(GenMsg(h, T(0, 30, 0), 0, "schedule", 0), genQ) = 1

\* What C24 says of the outcome out of batch_predict on the given inputs
BatchContract(inputs, out) ==
    LET Succeeds(i) == inputs[i] = "ok" IN
    /\ out.calls = [i \in 1 .. Len(inputs) |-> i]
    /\ ~out.raised => out.results = SelectSeq([i \in 1 .. Len(inputs) |-> i], Succeeds)
    /\ out.raised => (Len(inputs) >= 1 /\ \A i \in 1 .. Len(inputs) : inputs[i] = "fail")

C25_WorkflowNeverRaises ==
    (arg # None /\ arg.call = "workflow" /\ ret # None) =>
        /\ ret.raised = ""
        /\ \E i \in 1 .. Len(ret.attempted) :
               ret.attempted[i] = "schedule_and_generate_predictions"
        /\ ret.status \in {"success", "partial_success"}
        /\ ret.status = "success" <=> ret.steps = <<"success", "success">>

\* C26: a dispatched generate_prediction executes at most 4 times (the first
\* execution and at most 3 retries, each queued 300s after the failure) and
\* then ends; no task retries forever.
C26_BoundedRetries ==
    [][/\ \A r \in BagToSet(running') : r.retries <= max_retries
       /\ \A m \in BagToSet(genQ') :
              (m.retries >= 1 /\ CopiesIn(m, genQ') > CopiesIn(m, genQ))
                  => (m.retries <= max_retries /\ m.eta = now + retry_kwargs_countdown)]_vars

\* C27: an execution that created an event loop has closed it exactly once
\* when it ends, on every path: success, early return for want of game data,
\* and exception leading to retry.
C27_LoopClosedOnce ==
    [][BagCardinality(running') < BagCardinality(running) =>
           \A r \in BagToSet(running) :
               CopiesIn(r, running') < CopiesIn(r, running)
                   => loop_close_calls(r.pc) = 1]_vars

C29_SameEmergencySelection ==
    (arg # None /\ arg.call = "emergency" /\ ret.handle # None /\ ret.sweep # None) =>
        /\ ret.handle.scheduled = ret.sweep.scheduled
        /\ \A d \in {ret.handle, ret.sweep} :
               d.scheduled => (d.expires # NoExpires /\ d.expires <= date[arg.game])

\* The fetches that returned url u
ReturnedBy(u) ==
    {f \in Fetches :
        /\ news.fetches[f].pc = "done"
        /\ \E i \in 1 .. Len(news.fetches[f].articles) : news.fetches[f].articles[i] = u}

\* C30: the keys of article_cache are a subset of seen_urls, and since the
\* seen_urls test precedes the cache lookup a URL processed once is skipped by
\* every later feed fetch of the process: each article is returned by at most
\* one fetch and the cached-data branch is never taken, whatever CACHE_TTL.
C30_ArticleCache ==
    news # None =>
        /\ {c.url : c \in news.article_cache} \subseteq news.seen_urls
        /\ \A f \in Fetches : news.fetches[f].hits = 0
        /\ \A u \in Urls : Cardinality(ReturnedBy(u)) <= 1

====
